---- MODULE Spec2Model ----
(***************************************************************************)
(* FlintCoreTesting: the sequential match runner (flintcoretest/sprt.py)   *)
(* and the UCI script driver (flintcoretest/engine_runner.py).             *)
(*                                                                         *)
(* Numbers.  The LLR is a float in the source.  Here it is a fixed-point   *)
(* integer in units of 1/2000 nat; a score s in {0, 0.5, 1} is carried as  *)
(* the integer 2*s.  The clamp of the score into [1e-9, 1 - 1e-9] moves a  *)
(* contribution by less than 1e-8 nat, below the resolution used here.     *)
(* The rules oracle (chess.Board) is opaque: whether a position is         *)
(* terminal, and who won, are nondeterministic answers.                    *)
(*                                                                         *)
(* Specifications.  Spec: SPRTRunner.run from construction.  SpecFair: the *)
(* same with weak fairness.  SpecWide: the same with error rates whose sum *)
(* may reach or exceed one.  SpecLong: the game loop with long games.      *)
(* SpecScript: EngineHarness.run_uci_script.                               *)
(* SpecParse: _parse_perft_nodes.  SpecCase: PerftExpectation and          *)
(* _position_command.  SpecDisc: discover_engine_binary and                *)
(* EngineHarness.__init__.  SpecElo: logistic_from_elo, elo_from_score and *)
(* elo_with_confidence.  Text is a sequence of one-character strings.      *)
(***************************************************************************)
EXTENDS Integers, Sequences, FiniteSets, TLC

\* ------------------------------------------------------------ bounds
MaxGames == 3
MaxPly == 2

\* ------------------------------------------------------------ constants
Engines == {"A", "B"}
WHITE == "w"
BLACK == "b"
NoWinner == "none"
Min(a, b) == IF a <= b THEN a ELSE b

\* SPRTBounds values the match is run with: the defaults of sprt.py, a wide
\* symmetric pair, an asymmetric pair with loose error rates, and a pair with
\* the hypotheses swapped (elo1 < elo0).  alpha and beta are in percent; every
\* pair has alpha + beta < 1, so that lower < 0 < upper.  The game cap is >= 0.
BoundsSet ==
    { [elo0 |-> -2,   elo1 |-> 2,    alpha |-> 5,  beta |-> 5],
      [elo0 |-> -200, elo1 |-> 200,  alpha |-> 5,  beta |-> 5],
      [elo0 |-> 0,    elo1 |-> 400,  alpha |-> 25, beta |-> 25],
      [elo0 |-> 200,  elo1 |-> -200, alpha |-> 5,  beta |-> 5] }

\* Mutant: the logarithm is missing, lower is beta / (1 - alpha).
lower_NoLog(b) == (2000 * b.beta) \div (100 - b.alpha)

\* ln(beta / (1 - alpha)), in 1/2000 nat.
lower(b) ==
    CASE b.alpha = 5  /\ b.beta = 5  -> -5889
      [] b.alpha = 25 /\ b.beta = 25 -> -2197
      [] b.alpha = 25 /\ b.beta = 50 -> -811
      [] b.alpha = 25 /\ b.beta = 75 -> 0
      [] b.alpha = 50 /\ b.beta = 25 -> -1386
      [] b.alpha = 50 /\ b.beta = 50 -> 0
      [] b.alpha = 50 /\ b.beta = 75 -> 811
      [] b.alpha = 75 /\ b.beta = 25 -> 0
      [] b.alpha = 75 /\ b.beta = 50 -> 1386
      [] b.alpha = 75 /\ b.beta = 75 -> 2197

\* ln((1 - beta) / alpha), in 1/2000 nat.
upper(b) ==
    CASE b.alpha = 5  /\ b.beta = 5  -> 5889
      [] b.alpha = 25 /\ b.beta = 25 -> 2197
      [] b.alpha = 25 /\ b.beta = 50 -> 1386
      [] b.alpha = 25 /\ b.beta = 75 -> 0
      [] b.alpha = 50 /\ b.beta = 25 -> 811
      [] b.alpha = 50 /\ b.beta = 50 -> 0
      [] b.alpha = 50 /\ b.beta = 75 -> -1386
      [] b.alpha = 75 /\ b.beta = 25 -> 0
      [] b.alpha = 75 /\ b.beta = 50 -> -811
      [] b.alpha = 75 /\ b.beta = 75 -> -2197

\* logistic_from_elo enters the LLR only through ln(p1/p0) and
\* ln((1-p1)/(1-p0)); both in 1/1000 nat.
LnP1P0(b) ==
    CASE b.elo0 = -2   /\ b.elo1 = 2    -> 12
      [] b.elo0 = -200 /\ b.elo1 = 200  -> 1151
      [] b.elo0 = 0    /\ b.elo1 = 400  -> 598
      [] b.elo0 = 200  /\ b.elo1 = -200 -> -1151

LnQ1Q0(b) ==
    CASE b.elo0 = -2   /\ b.elo1 = 2    -> -12
      [] b.elo0 = -200 /\ b.elo1 = 200  -> -1151
      [] b.elo0 = 0    /\ b.elo1 = 400  -> -1705
      [] b.elo0 = 200  /\ b.elo1 = -200 -> 1151

\* Mutant: the two hypotheses are exchanged in the ratio (part0 / part1).
likelihood_ratio_Swapped(b, score2) == - (score2 * LnP1P0(b) + (2 - score2) * LnQ1Q0(b))

\* ln(p1^s (1-p1)^(1-s) / (p0^s (1-p0)^(1-s))) = s ln(p1/p0) + (1-s) ln((1-p1)/(1-p0)),
\* with s = score2 / 2, in 1/2000 nat.
likelihood_ratio(b, score2) == score2 * LnP1P0(b) + (2 - score2) * LnQ1Q0(b)

\* ------------------------------------------------------------ openings
FenBlack == "fen_black_to_move"
FenWhite == "fen_white_to_move"
FenOver == "fen_terminal"
FenBad == "not_a_fen"
None == "None"

\* Opening lists handed to SPRTRunner.__init__, which rejects the empty list.
OpeningLists ==
    { <<None>>,
      <<"startpos", FenBlack>>,
      <<FenBlack, FenWhite, FenOver>>,
      <<FenWhite, FenBad>> }

\* chess.Board() / chess.Board(opening): side to move and whether the oracle
\* already reports the position terminal.  FenBad makes chess.Board raise.
NewBoard(opening) ==
    [turn  |-> IF opening = FenBlack THEN BLACK ELSE WHITE,
     plies |-> 0,
     over  |-> (opening = FenOver)]

NoBoard == [turn |-> WHITE, plies |-> 0, over |-> FALSE]
\* Record of the last completed game and of the last engine.play request (history
\* variables: the code keeps neither).  spawns counts, per engine, the processes
\* that popen_uci has started.
NoGame == [idx |-> -1, opening |-> None, white_is_a |-> TRUE, first |-> "none",
           forfeit |-> "none", winner |-> NoWinner, score2 |-> 1, plies |-> 0,
           llr0 |-> 0, tally0 |-> <<0, 0, 0>>, dead0 |-> {}]
NoAsk == [engine |-> "none", reply |-> "none"]
Forfeits == {"error", "terminated", "no_move"}
NoResult == [verdict |-> "none"]

VARIABLES pc, config, openings, proc, applied, game_idx, opening, board,
          white_is_a, llr, wins_a, wins_b, draws, penta, verdict, result,
          first, last, ask,
          commands, script_lines, script, sresult, spawned,
          timeout_arg, harness_timeout, child,
          output, parsed,
          case, built, position,
          environ, exec_files, plain_files, engine_path, discovered, harness,
          horizon, rejected,
          elo_in, score_in, round_trip, estimates,
          spawns

vars == <<pc, config, openings, proc, applied, game_idx, opening, board,
          white_is_a, llr, wins_a, wins_b, draws, penta, verdict, result,
          first, last, ask,
          commands, script_lines, script, sresult, spawned,
          timeout_arg, harness_timeout, child,
          output, parsed,
          case, built, position,
          environ, exec_files, plain_files, engine_path, discovered, harness,
          horizon, rejected,
          elo_in, score_in, round_trip, estimates,
          spawns>>

matchVars == <<pc, config, openings, proc, applied, game_idx, opening, board,
               white_is_a, llr, wins_a, wins_b, draws, penta, verdict, result,
               first, last, ask, horizon, rejected, spawns>>
scriptVars == <<commands, script_lines, script, sresult, spawned,
                timeout_arg, harness_timeout, child>>

parseVars == <<output, parsed>>

ParseIdle ==
    /\ output = <<>>
    /\ parsed = [kind |-> "idle", n |-> 0]

caseVars == <<case, built, position>>

CaseIdle ==
    /\ case = [startpos |-> FALSE, fen |-> <<>>, moves |-> <<>>]
    /\ built = "no"
    /\ position = [kind |-> "none", text |-> <<>>]

discVars == <<environ, exec_files, plain_files, engine_path, discovered, harness>>

DiscIdle ==
    /\ environ = [engine |-> <<>>, source |-> <<>>, build |-> <<>>]
    /\ exec_files = {}
    /\ plain_files = {}
    /\ engine_path = <<>>
    /\ discovered = [kind |-> "none", path |-> <<>>]
    /\ harness = [kind |-> "none", path |-> <<>>]

eloVars == <<elo_in, score_in, round_trip, estimates>>

EloIdle ==
    /\ elo_in = 0
    /\ score_in = [n |-> 1, d |-> 2]
    /\ round_trip = [lo |-> 0, hi |-> 0, exact |-> FALSE]
    /\ estimates = <<>>

\* What the actions of run leave alone, and what run_uci_script leaves alone.
outsideMatch == <<scriptVars, parseVars, caseVars, discVars, eloVars>>
outsideScript == <<matchVars, parseVars, caseVars, discVars, eloVars>>
outsideParse == <<matchVars, scriptVars, caseVars, discVars, eloVars>>
outsideCase == <<matchVars, scriptVars, parseVars, discVars, eloVars>>
outsideDisc == <<matchVars, scriptVars, caseVars, parseVars, eloVars>>
outsideElo == <<matchVars, scriptVars, caseVars, discVars, parseVars>>

\* The child process of a run_uci_script call that has not been spawned.
NoChild == [exits |-> FALSE, at |-> 0, code |-> 0]

\* No run_uci_script call is in progress.
ScriptIdle ==
    /\ commands = <<>>
    /\ script_lines = <<>>
    /\ script = <<>>
    /\ sresult = "idle"
    /\ spawned = 0
    /\ timeout_arg = <<>>
    /\ harness_timeout = 0
    /\ child = NoChild

Init ==
    /\ EloIdle
    /\ DiscIdle
    /\ CaseIdle
    /\ ParseIdle
    /\ config \in [games : 0..MaxGames, bounds : BoundsSet]
    /\ openings \in OpeningLists
    /\ pc = "popen_a"
    /\ proc = [e \in Engines |-> "unspawned"]
    /\ applied = [e \in Engines |-> {}]
    /\ game_idx = 0
    /\ opening = None
    /\ board = NoBoard
    /\ white_is_a = TRUE
    /\ llr = 0
    /\ wins_a = 0 /\ wins_b = 0 /\ draws = 0
    /\ penta = <<0, 0, 0, 0, 0>>
    /\ verdict = "in_progress"
    /\ result = NoResult
    /\ first = "none"
    /\ last = NoGame
    /\ ask = NoAsk
    /\ horizon = MaxPly
    /\ rejected = [e \in Engines |-> {}]
    /\ spawns = [e \in Engines |-> 0]
    /\ ScriptIdle

\* ------------------------------------------------------------ helpers of run
\* Mutant: only eng_b is closed on the way out.
ExitWith_OnlyB(p) == [e \in Engines |-> IF e = "B" /\ p[e] # "unspawned" THEN "closed" ELSE p[e]]

\* Leaving the with-statement: __exit__ of every engine that was entered.
ExitWith(p) == [e \in Engines |-> IF p[e] = "unspawned" THEN "unspawned" ELSE "closed"]

\* Mutant: the index is clamped to the list instead of wrapping around.
OpeningFor_Clamped(ops, i) == ops[Min(i, Len(ops) - 1) + 1]

\* openings[game_idx % len(openings)] (Python indexes from 0).
OpeningFor(ops, i) == ops[(i % Len(ops)) + 1]

\* Mutant: the parity test is inverted.
WhiteIsA_Odd(i) == i % 2 = 1

\* white_is_a = game_idx % 2 == 0
WhiteIsA(i) == i % 2 = 0

\* white_engine / black_engine of _play_game.
white_engine(wa) == IF wa THEN "A" ELSE "B"
black_engine(wa) == IF wa THEN "B" ELSE "A"

\* engine = white_engine if board.turn == chess.WHITE else black_engine
EngineToMove(brd, wa) == IF brd.turn = WHITE THEN white_engine(wa) ELSE black_engine(wa)

\* Mutant: a forfeit always returns 0.0, whoever the mover is.
ForfeitOutcome_AlwaysZero(engine, wa) == 0

\* The forfeit return of _play_game: 0.0 if the mover is the white engine, else 1.0.
ForfeitOutcome(engine, wa) == IF engine = white_engine(wa) THEN 0 ELSE 2

\* The regular return of _play_game from board.outcome(claim_draw=True).
BoardOutcome(winner) ==
    IF winner = NoWinner THEN 1 ELSE IF winner = WHITE THEN 2 ELSE 0

\* Mutant: the outcome is not corrected for the colour A played.
ScoreA_Uncorrected(outcome2, wa) == outcome2

\* score_a = outcome if white_is_a else 1.0 - outcome
ScoreA(outcome2, wa) == IF wa THEN outcome2 ELSE 2 - outcome2

\* Mutant: the test against the lower bound is lost.
StopVerdict_NoLower(l, b) ==
    IF l >= upper(b) THEN "accept H1" ELSE "in_progress"

\* The two stopping tests of run, in the order run makes them.
StopVerdict(l, b) ==
    IF l >= upper(b) THEN "accept H1"
    ELSE IF l <= lower(b) THEN "accept H0"
    ELSE "in_progress"

\* bin_idx = min(len(board.move_stack) // 20, 4)
\* Mutant: the last bucket is bucket 3.
BinIdx_FourBuckets(plies) == Min(plies \div 20, 3)

BinIdx(plies) == Min(plies \div 20, 4)

SPRTResult(wa, wb, d, l, v, pen) ==
    [wins_a |-> wa, wins_b |-> wb, draws |-> d, games_played |-> wa + wb + d,
     llr |-> l, verdict |-> v, penta |-> pen]

\* board.push(move): the other side is to move; the oracle then says whether
\* the new position is terminal.
Push(brd, nowOver) ==
    [turn  |-> IF brd.turn = WHITE THEN BLACK ELSE WHITE,
     plies |-> brd.plies + 1,
     over  |-> nowOver]

\* ------------------------------------------------------------ run
\* chess.engine.SimpleEngine.popen_uci(engine_a) and __enter__.
PopenA ==
    /\ pc = "popen_a"
    /\ \E ok \in BOOLEAN :
         IF ok THEN /\ proc' = [proc EXCEPT !["A"] = "running"]
                    /\ spawns' = [spawns EXCEPT !["A"] = @ + 1]
                    /\ pc' = "popen_b"
         ELSE /\ pc' = "raised"
              /\ UNCHANGED <<proc, spawns>>
    /\ UNCHANGED <<config, openings, horizon, rejected, applied, game_idx, opening, board, white_is_a,
                   llr, wins_a, wins_b, draws, penta, verdict, result, first, last, ask,
                   outsideMatch>>

\* popen_uci(engine_b); when it raises, the with-statement exits eng_a.
PopenB ==
    /\ pc = "popen_b"
    /\ \E ok \in BOOLEAN :
         IF ok THEN /\ proc' = [proc EXCEPT !["B"] = "running"]
                    /\ spawns' = [spawns EXCEPT !["B"] = @ + 1]
                    /\ pc' = "configure_a"
         ELSE /\ pc' = "raised"
              /\ proc' = ExitWith(proc)
              /\ UNCHANGED spawns
    /\ UNCHANGED <<config, openings, horizon, rejected, applied, game_idx, opening, board, white_is_a,
                   llr, wins_a, wins_b, draws, penta, verdict, result, first, last, ask,
                   outsideMatch>>

Options == {"Threads", "Hash"}

\* The options in the order of the dict.
OptionOrder == <<"Threads", "Hash">>

\* Mutant: the first EngineError ends the loop over the options.
ConfigureResult_StopAtFirst(refused) ==
    { OptionOrder[i] : i \in { k \in 1..Len(OptionOrder) :
                                  \A j \in 1..k : OptionOrder[j] \notin refused } }

\* _configure_engine: every option is tried; an EngineError skips that option only.
ConfigureResult(refused) ==
    { OptionOrder[i] : i \in { k \in 1..Len(OptionOrder) : OptionOrder[k] \notin refused } }

\* rejected records which options the engine answered with an EngineError.
ConfigureEngine(e) ==
    /\ pc = (IF e = "A" THEN "configure_a" ELSE "configure_b")
    /\ \E refused \in SUBSET Options :
         /\ applied' = [applied EXCEPT ![e] = ConfigureResult(refused)]
         /\ rejected' = [rejected EXCEPT ![e] = refused]
    /\ pc' = (IF e = "A" THEN "configure_b" ELSE "for")
    /\ UNCHANGED <<config, openings, horizon, spawns, proc, game_idx, opening, board, white_is_a,
                   llr, wins_a, wins_b, draws, penta, verdict, result, first, last, ask,
                   outsideMatch>>

\* An exception other than EngineError out of engine.configure leaves run.
ConfigureRaises(e) ==
    /\ pc = (IF e = "A" THEN "configure_a" ELSE "configure_b")
    /\ pc' = "raised"
    /\ proc' = ExitWith(proc)
    /\ UNCHANGED <<config, openings, horizon, spawns, rejected, applied, game_idx, opening, board, white_is_a,
                   llr, wins_a, wins_b, draws, penta, verdict, result, first, last, ask,
                   outsideMatch>>

\* Mutant: an engine that has terminated is spawned again for the next game.
ForNext_Respawn ==
    /\ pc = "for"
    /\ game_idx < config.games
    /\ LET op == OpeningFor(openings, game_idx) IN
         /\ opening' = op
         /\ IF op = FenBad
            THEN /\ pc' = "raised"
                 /\ proc' = ExitWith(proc)
                 /\ UNCHANGED <<board, white_is_a, first, spawns>>
            ELSE /\ pc' = "play"
                 /\ board' = NewBoard(op)
                 /\ white_is_a' = WhiteIsA(game_idx)
                 /\ first' = "none"
                 /\ proc' = [e \in Engines |-> IF proc[e] = "dead" THEN "running" ELSE proc[e]]
                 /\ spawns' = [e \in Engines |-> IF proc[e] = "dead" THEN spawns[e] + 1 ELSE spawns[e]]
    /\ ask' = NoAsk
    /\ UNCHANGED <<config, openings, horizon, rejected, applied, game_idx, llr, wins_a, wins_b, draws,
                   penta, verdict, result, last, outsideMatch>>

\* Top of the for loop with a game left: opening, board and colours of game game_idx.
ForNext ==
    /\ pc = "for"
    /\ game_idx < config.games
    /\ LET op == OpeningFor(openings, game_idx) IN
         /\ opening' = op
         /\ IF op = FenBad
            THEN /\ pc' = "raised"
                 /\ proc' = ExitWith(proc)
                 /\ UNCHANGED <<board, white_is_a, first>>
            ELSE /\ pc' = "play"
                 /\ board' = NewBoard(op)
                 /\ white_is_a' = WhiteIsA(game_idx)
                 /\ first' = "none"
                 /\ UNCHANGED proc
    /\ ask' = NoAsk
    /\ UNCHANGED <<config, openings, horizon, spawns, rejected, applied, game_idx, llr, wins_a, wins_b, draws,
                   penta, verdict, result, last, outsideMatch>>

\* Mutant: the loop gives up one game early (range(config.games - 1)).
ForElse_OneShort ==
    /\ pc = "for"
    /\ game_idx >= config.games - 1
    /\ verdict' = "max games reached"
    /\ proc' = ExitWith(proc)
    /\ result' = SPRTResult(wins_a, wins_b, draws, llr, "max games reached", penta)
    /\ pc' = "returned"
    /\ UNCHANGED <<config, openings, horizon, spawns, rejected, applied, game_idx, opening, board, white_is_a,
                   llr, wins_a, wins_b, draws, penta, first, last, ask, outsideMatch>>

\* Mutant: the for loop has no else branch.
ForElse_NoElse ==
    /\ pc = "for"
    /\ game_idx >= config.games
    /\ proc' = ExitWith(proc)
    /\ result' = SPRTResult(wins_a, wins_b, draws, llr, verdict, penta)
    /\ pc' = "returned"
    /\ UNCHANGED <<config, openings, horizon, spawns, rejected, applied, game_idx, opening, board, white_is_a,
                   llr, wins_a, wins_b, draws, penta, verdict, first, last, ask, outsideMatch>>

\* The else branch of the for loop: range(config.games) is exhausted.
ForElse ==
    /\ pc = "for"
    /\ game_idx >= config.games
    /\ verdict' = "max games reached"
    /\ proc' = ExitWith(proc)
    /\ result' = SPRTResult(wins_a, wins_b, draws, llr, "max games reached", penta)
    /\ pc' = "returned"
    /\ UNCHANGED <<config, openings, horizon, spawns, rejected, applied, game_idx, opening, board, white_is_a,
                   llr, wins_a, wins_b, draws, penta, first, last, ask, outsideMatch>>

\* Lines 137-155 of run, after _play_game returned outcome2 on board brd:
\* score, LLR, histogram, tallies, the two stopping tests, and on a stop the
\* exit of the with-statement and the return.
CompleteGame(outcome2, brd, p, firstAsked, forfeiter, winner, reply) ==
    LET score_a == ScoreA(outcome2, white_is_a)
        llr1    == llr + likelihood_ratio(config.bounds, score_a)
        pen1    == [penta EXCEPT ![BinIdx(brd.plies) + 1] = @ + 1]
        wa1     == IF score_a = 2 THEN wins_a + 1 ELSE wins_a
        wb1     == IF score_a = 2 THEN wins_b ELSE IF score_a = 0 THEN wins_b + 1 ELSE wins_b
        d1      == IF score_a = 2 \/ score_a = 0 THEN draws ELSE draws + 1
        v       == StopVerdict(llr1, config.bounds)
    IN  /\ llr' = llr1
        /\ penta' = pen1
        /\ wins_a' = wa1 /\ wins_b' = wb1 /\ draws' = d1
        /\ board' = brd
        /\ first' = firstAsked
        /\ last' = [idx |-> game_idx, opening |-> opening, white_is_a |-> white_is_a,
                    first |-> firstAsked, forfeit |-> forfeiter, winner |-> winner,
                    score2 |-> score_a, plies |-> brd.plies,
                    llr0 |-> llr, tally0 |-> <<wins_a, wins_b, draws>>,
                    dead0 |-> {e \in Engines : proc[e] = "dead"}]
        /\ ask' = (IF forfeiter = "none" THEN ask ELSE [engine |-> forfeiter, reply |-> reply])
        /\ IF v # "in_progress"
           THEN /\ verdict' = v
                /\ proc' = ExitWith(p)
                /\ result' = SPRTResult(wa1, wb1, d1, llr1, v, pen1)
                /\ pc' = "returned"
                /\ UNCHANGED game_idx
           ELSE /\ proc' = p
                /\ game_idx' = game_idx + 1
                /\ pc' = "for"
                /\ UNCHANGED <<verdict, result>>
        /\ UNCHANGED <<config, openings, horizon, spawns, rejected, applied, opening, white_is_a, outsideMatch>>

\* _play_game: board.is_game_over(claim_draw=True) holds; the oracle names the winner.
GameOver ==
    /\ pc = "play"
    /\ board.over
    /\ \E winner \in {WHITE, BLACK, NoWinner} :
         CompleteGame(BoardOutcome(winner), board, proc, first, "none", winner, "none")

FirstAsked(engine) == IF first = "none" THEN engine ELSE first

\* engine.play returns a move, which is pushed.
PlayMove ==
    /\ pc = "play"
    /\ ~board.over
    /\ board.plies < horizon
    /\ LET engine == EngineToMove(board, white_is_a) IN
         /\ proc[engine] = "running"
         /\ first' = FirstAsked(engine)
         /\ \E nowOver \in BOOLEAN :
              /\ (board.plies + 1 = horizon => nowOver)
              /\ board' = Push(board, nowOver)
         /\ ask' = [engine |-> engine, reply |-> "move"]
    /\ UNCHANGED <<pc, config, openings, horizon, spawns, rejected, proc, applied, game_idx, opening, white_is_a,
                   llr, wins_a, wins_b, draws, penta, verdict, result, last, outsideMatch>>

\* Mutant: the failure of engine.play is not caught and leaves run.
PlayForfeit_Uncaught ==
    /\ pc = "play"
    /\ ~board.over
    /\ \E how \in {"error", "terminated", "no_move"} :
         ask' = [engine |-> EngineToMove(board, white_is_a), reply |-> how]
    /\ first' = (IF first = "none" THEN EngineToMove(board, white_is_a) ELSE first)
    /\ pc' = "raised"
    /\ proc' = ExitWith(proc)
    /\ UNCHANGED <<config, openings, horizon, spawns, rejected, applied, game_idx, opening, board, white_is_a,
                   llr, wins_a, wins_b, draws, penta, verdict, result, last, outsideMatch>>

\* Mutant: engine.play on a process that has terminated never returns.
PlayForfeit_Blocks ==
    /\ pc = "play"
    /\ ~board.over
    /\ LET engine == EngineToMove(board, white_is_a) IN
         \E how \in {"error", "terminated", "no_move"} :
           /\ proc[engine] = "running"
           /\ CompleteGame(ForfeitOutcome(engine, white_is_a), board,
                           IF how = "terminated" THEN [proc EXCEPT ![engine] = "dead"] ELSE proc,
                           FirstAsked(engine), engine,
                           IF engine = white_engine(white_is_a) THEN BLACK ELSE WHITE,
                           how)

\* engine.play raises EngineError or EngineTerminatedError, or returns no move:
\* the game ends as a forfeit of the mover.
PlayForfeit ==
    /\ pc = "play"
    /\ ~board.over
    /\ LET engine == EngineToMove(board, white_is_a) IN
         \E how \in {"error", "terminated", "no_move"} :
           /\ (proc[engine] = "dead" => how = "terminated")
           /\ CompleteGame(ForfeitOutcome(engine, white_is_a), board,
                           IF how = "terminated" THEN [proc EXCEPT ![engine] = "dead"] ELSE proc,
                           FirstAsked(engine), engine,
                           IF engine = white_engine(white_is_a) THEN BLACK ELSE WHITE,
                           how)

\* engine.play raises anything else: the exception leaves run.
PlayRaises ==
    /\ pc = "play"
    /\ ~board.over
    /\ proc[EngineToMove(board, white_is_a)] = "running"
    /\ first' = FirstAsked(EngineToMove(board, white_is_a))
    /\ ask' = [engine |-> EngineToMove(board, white_is_a), reply |-> "raise"]
    /\ pc' = "raised"
    /\ proc' = ExitWith(proc)
    /\ UNCHANGED <<config, openings, horizon, spawns, rejected, applied, game_idx, opening, board, white_is_a,
                   llr, wins_a, wins_b, draws, penta, verdict, result, last, outsideMatch>>

\* ------------------------------------------------------------ run_uci_script
\* Text is a sequence of one-character strings, so that strip and lower act on
\* characters as str.strip and str.lower do.
MaxCommands == 2

Whitespace == {" ", "\t"}
NL == "\n"
Quit == <<"q", "u", "i", "t">>

CommandSet ==
    { <<"u", "c", "i">>,
      Quit,
      <<"Q", "U", "I", "T">>,
      <<" ", "q", "u", "i", "t", "\t">>,
      <<"q", "u", "i", "t", " ", "x">>,
      <<>> }

CommandSeqs == UNION { [1..n -> CommandSet] : n \in 0..MaxCommands }

\* str.lower on the letters that occur in CommandSet.
LowerChar(c) ==
    CASE c = "Q" -> "q"
      [] c = "U" -> "u"
      [] c = "I" -> "i"
      [] c = "T" -> "t"
      [] c = "N" -> "n"
      [] c = "O" -> "o"
      [] c = "D" -> "d"
      [] c = "E" -> "e"
      [] c = "S" -> "s"
      [] OTHER -> c

str_lower(t) == [i \in 1..Len(t) |-> LowerChar(t[i])]

RECURSIVE LStrip(_)
LStrip(t) == IF t # <<>> /\ Head(t) \in Whitespace THEN LStrip(Tail(t)) ELSE t

RECURSIVE RStrip(_)
RStrip(t) ==
    IF t # <<>> /\ t[Len(t)] \in Whitespace THEN RStrip(SubSeq(t, 1, Len(t) - 1)) ELSE t

str_strip(t) == RStrip(LStrip(t))

\* Mutant: the last line is compared with "quit" as it stands, without
\* strip() and lower().
ensure_quit_Exact(cmds) ==
    IF cmds = <<>> \/ cmds[Len(cmds)] # Quit
    THEN Append(cmds, Quit)
    ELSE cmds

\* _ensure_quit
ensure_quit(cmds) ==
    IF cmds = <<>> \/ str_lower(str_strip(cmds[Len(cmds)])) # Quit
    THEN Append(cmds, Quit)
    ELSE cmds

\* "\n".join(lines)
RECURSIVE JoinLines(_)
JoinLines(lines) ==
    IF lines = <<>> THEN <<>>
    ELSE IF Len(lines) = 1 THEN lines[1]
    ELSE lines[1] \o <<NL>> \o JoinLines(Tail(lines))

\* script = "\n".join(script_lines) + "\n"
ScriptText(lines) == JoinLines(lines) \o <<NL>>

\* Time is counted in whole ticks.  An optional timeout is <<>> for None and
\* <<t>> for the number t.
MaxTime == 2
Timeouts == 0..MaxTime
OptTimeouts == {<<>>} \cup { <<t>> : t \in Timeouts }

\* What the engine process does with the script: it exits at tick `at` with
\* status `code`, or it never exits.
Children ==
    [exits : {TRUE}, at : 0..MaxTime, code : {0, 1}]
      \cup {[exits |-> FALSE, at |-> 0, code |-> 0]}

\* timeout=timeout or self.timeout
EffectiveTimeout(t, h) == IF t = <<>> \/ t[1] = 0 THEN h ELSE t[1]

\* subprocess.run(..., timeout=..., check=True): TimeoutExpired when the child
\* has not exited before the timeout, CalledProcessError on a non-zero status.
SubprocessRun(c, timeout) ==
    IF ~c.exits \/ c.at >= timeout THEN "TimeoutExpired"
    ELSE IF c.code # 0 THEN "CalledProcessError"
    ELSE "CommandResult"

\* run_uci_script: one subprocess.run with check=True and a timeout.
RunUciScript ==
    /\ sresult = "idle"
    /\ script_lines' = ensure_quit(commands)
    /\ script' = ScriptText(ensure_quit(commands))
    /\ spawned' = spawned + 1
    /\ \E c \in Children :
         /\ child' = c
         /\ sresult' = SubprocessRun(c, EffectiveTimeout(timeout_arg, harness_timeout))
    /\ UNCHANGED <<commands, timeout_arg, harness_timeout, outsideScript>>

\* No match is being run.
MatchIdle ==
    /\ config = [games |-> 0, bounds |-> [elo0 |-> -2, elo1 |-> 2, alpha |-> 5, beta |-> 5]]
    /\ openings = <<None>>
    /\ pc = "idle"
    /\ proc = [e \in Engines |-> "unspawned"]
    /\ applied = [e \in Engines |-> {}]
    /\ game_idx = 0
    /\ opening = None
    /\ board = NoBoard
    /\ white_is_a = TRUE
    /\ llr = 0
    /\ wins_a = 0 /\ wins_b = 0 /\ draws = 0
    /\ penta = <<0, 0, 0, 0, 0>>
    /\ verdict = "in_progress"
    /\ result = NoResult
    /\ first = "none"
    /\ last = NoGame
    /\ ask = NoAsk
    /\ horizon = 0
    /\ rejected = [e \in Engines |-> {}]
    /\ spawns = [e \in Engines |-> 0]

InitScript ==
    /\ EloIdle
    /\ DiscIdle
    /\ CaseIdle
    /\ ParseIdle
    /\ MatchIdle
    /\ commands \in CommandSeqs
    /\ timeout_arg \in OptTimeouts
    /\ harness_timeout \in Timeouts
    /\ script_lines = <<>>
    /\ script = <<>>
    /\ sresult = "idle"
    /\ spawned = 0
    /\ child = NoChild

NextScript == RunUciScript

SpecScript == InitScript /\ [][NextScript]_vars


\* ------------------------------------------------------- _parse_perft_nodes
MaxLines == 3

\* Lines an engine prints around a perft count.
OutputLines ==
    { <<"n", "o", "d", "e", "s", " ", "7">>,
      <<"T", "o", "t", "a", "l", " ", "n", "o", "d", "e", "s", ":", " ", "1", "2">>,
      <<"N", "O", "D", "E", "S", " ", "3", "0">>,
      <<"i", "n", "f", "o", " ", "d", "e", "p", "t", "h", " ", "2">>,
      <<"N", "o", "d", "e", "s", " ", "p", "e", "r", " ", "s", "e", "c", "o", "n", "d", ":", " ", "9">>,
      <<" ", " ", "n", "o", "d", "e", "s", " ", "4", " ", "\t">> }

OutputLineSeqs == UNION { [1..n -> OutputLines] : n \in 0..MaxLines }

\* The captured stdout: every line ends with a newline.
Outputs == { IF ls = <<>> THEN <<>> ELSE ScriptText(ls) : ls \in OutputLineSeqs }

\* str.splitlines()
RECURSIVE SplitLinesFrom(_, _, _)
SplitLinesFrom(t, i, cur) ==
    IF i > Len(t) THEN (IF cur = <<>> THEN <<>> ELSE <<cur>>)
    ELSE IF t[i] = NL THEN <<cur>> \o SplitLinesFrom(t, i + 1, <<>>)
    ELSE SplitLinesFrom(t, i + 1, Append(cur, t[i]))

splitlines(t) == SplitLinesFrom(t, 1, <<>>)

\* str.startswith(prefix)
startswith(t, prefix) ==
    Len(t) >= Len(prefix) /\ SubSeq(t, 1, Len(prefix)) = prefix

\* str.split(sep, 1)[1] for a one-character sep that occurs in t
AfterFirst(t, sep) ==
    LET k == CHOOSE i \in 1..Len(t) :
                 t[i] = sep /\ \A j \in 1..(i - 1) : t[j] # sep
    IN SubSeq(t, k + 1, Len(t))

\* str.split(): the maximal runs of non-whitespace characters
RECURSIVE SplitFrom(_, _, _)
SplitFrom(t, i, cur) ==
    IF i > Len(t) THEN (IF cur = <<>> THEN <<>> ELSE <<cur>>)
    ELSE IF t[i] \in Whitespace
         THEN (IF cur = <<>> THEN <<>> ELSE <<cur>>) \o SplitFrom(t, i + 1, <<>>)
    ELSE SplitFrom(t, i + 1, Append(cur, t[i]))

split(t) == SplitFrom(t, 1, <<>>)

Digits == {"0", "1", "2", "3", "4", "5", "6", "7", "8", "9"}

DigitValue(c) ==
    CASE c = "0" -> 0 [] c = "1" -> 1 [] c = "2" -> 2 [] c = "3" -> 3
      [] c = "4" -> 4 [] c = "5" -> 5 [] c = "6" -> 6 [] c = "7" -> 7
      [] c = "8" -> 8 [] c = "9" -> 9

RECURSIVE DecimalValue(_)
DecimalValue(t) ==
    IF t = <<>> THEN 0
    ELSE 10 * DecimalValue(SubSeq(t, 1, Len(t) - 1)) + DigitValue(t[Len(t)])

IsDecimal(t) == t # <<>> /\ \A i \in 1..Len(t) : t[i] \in Digits

NotParsed == [kind |-> "idle", n |-> 0]
ParseError == [kind |-> "ValueError", n |-> 0]
Parsed(n) == [kind |-> "value", n |-> n]

\* int(text) of an unsigned token: the number, or ValueError
int(t) == IF IsDecimal(t) THEN Parsed(DecimalValue(t)) ELSE ParseError

TotalNodesPrefix == <<"t", "o", "t", "a", "l", " ", "n", "o", "d", "e", "s", ":">>
NodesPrefix == <<"n", "o", "d", "e", "s", " ">>

\* The for loop over reversed(output.splitlines()), from line i downwards.
RECURSIVE ParseLinesFrom(_, _)
ParseLinesFrom(lines, i) ==
    IF i = 0 THEN ParseError
    ELSE LET stripped == str_strip(lines[i])
             lowered == str_lower(stripped)
         IN IF startswith(lowered, TotalNodesPrefix)
                THEN int(str_strip(AfterFirst(stripped, ":")))
            ELSE IF startswith(lowered, NodesPrefix)
                THEN int(split(stripped)[2])
            ELSE ParseLinesFrom(lines, i - 1)

parse_perft_nodes(out) ==
    LET lines == splitlines(out) IN ParseLinesFrom(lines, Len(lines))

\* A call of _parse_perft_nodes on the captured output.
ParsePerftNodes ==
    /\ parsed = NotParsed
    /\ parsed' = parse_perft_nodes(output)
    /\ UNCHANGED <<output, outsideParse>>

InitParse ==
    /\ EloIdle
    /\ DiscIdle
    /\ CaseIdle
    /\ MatchIdle
    /\ ScriptIdle
    /\ output \in Outputs
    /\ parsed = NotParsed

NextParse == ParsePerftNodes

SpecParse == InitParse /\ [][NextParse]_vars


\* ------------------------------------- PerftExpectation, _position_command
MaxMoves == 2

\* An optional string is <<>> for None and <<text>> for a string; text is a
\* sequence of characters, <<>> for the empty string.
NoFen == <<>>
FenText == <<"k", "7", "/", "8", "/", "K", "7", "/", "8", "/", "8", "/", "8", "/", "8", "/", "8", " ", "w", " ", "-", " ", "-", " ", "0", " ", "1">>
FenValues == {NoFen, << <<>> >>, <<FenText>>}

MoveTokens ==
    { <<"e", "2", "e", "4">>,
      <<"e", "7", "e", "5">>,
      <<"a", "7", "a", "8", "q">>,
      <<"e", "2", "e">> }

MoveSeqs == UNION { [1..n -> MoveTokens] : n \in 0..MaxMoves }

\* Truth value of `self.fen`: None and "" are falsy.
FenTruthy(fen) == fen # NoFen /\ fen[1] # <<>>

\* Mutant: the check for both specifiers is missing.
post_init_NoBothCheck(c) ==
    IF ~c.startpos /\ ~FenTruthy(c.fen) THEN "ValueError"
    ELSE IF \E i \in 1..Len(c.moves) : Len(c.moves[i]) < 4 THEN "ValueError"
    ELSE "constructed"

\* PerftExpectation.__post_init__
post_init(c) ==
    IF ~c.startpos /\ ~FenTruthy(c.fen) THEN "ValueError"
    ELSE IF c.startpos /\ FenTruthy(c.fen) THEN "ValueError"
    ELSE IF \E i \in 1..Len(c.moves) : Len(c.moves[i]) < 4 THEN "ValueError"
    ELSE "constructed"

PositionStartpos == <<"p", "o", "s", "i", "t", "i", "o", "n", " ", "s", "t", "a", "r", "t", "p", "o", "s">>
PositionFen == <<"p", "o", "s", "i", "t", "i", "o", "n", " ", "f", "e", "n", " ">>
MovesKeyword == <<" ", "m", "o", "v", "e", "s", " ">>

\* " ".join(tokens)
RECURSIVE JoinSpace(_)
JoinSpace(tokens) ==
    IF tokens = <<>> THEN <<>>
    ELSE IF Len(tokens) = 1 THEN tokens[1]
    ELSE tokens[1] \o <<" ">> \o JoinSpace(Tail(tokens))

\* Mutant: the moves keyword is appended whatever the move list is.
MovesSuffix_Always(moves) == MovesKeyword \o JoinSpace(moves)

\* if case.moves: base += " moves " + " ".join(case.moves)
MovesSuffix(moves) ==
    IF moves # <<>> THEN MovesKeyword \o JoinSpace(moves) ELSE <<>>

NoCommand == [kind |-> "none", text |-> <<>>]

\* _position_command
position_command(c) ==
    IF c.startpos
        THEN [kind |-> "str", text |-> PositionStartpos \o MovesSuffix(c.moves)]
    ELSE IF FenTruthy(c.fen)
        THEN [kind |-> "str", text |-> PositionFen \o c.fen[1] \o MovesSuffix(c.moves)]
    ELSE [kind |-> "ValueError", text |-> <<>>]

\* PerftExpectation(name, depth, nodes, startpos, fen, moves)
Construct ==
    /\ built = "no"
    /\ built' = post_init(case)
    /\ UNCHANGED <<case, position, outsideCase>>

\* _position_command(case) for a case that was constructed
PositionCommand ==
    /\ built = "constructed"
    /\ position = NoCommand
    /\ position' = position_command(case)
    /\ UNCHANGED <<case, built, outsideCase>>

InitCase ==
    /\ EloIdle
    /\ DiscIdle
    /\ MatchIdle
    /\ ScriptIdle
    /\ ParseIdle
    /\ case \in [startpos : BOOLEAN, fen : FenValues, moves : MoveSeqs]
    /\ built = "no"
    /\ position = NoCommand

NextCase == Construct \/ PositionCommand

SpecCase == InitCase /\ [][NextCase]_vars


\* ------------------------------------ discover_engine_binary, EngineHarness
MaxExec == 2

\* A resolved path is the sequence of its components; an unset environment
\* variable or a missing argument is <<>>, a set one is <<path>>.
RepoRoot == <<"ws", "repo">>
Workspace == <<"ws">>
EnvEngineValues == {<<>>, << <<"opt", "engine">> >>, << RepoRoot \o <<"build", "FlintCore">> >>}
EnvSourceValues == {<<>>, << <<"src">> >>}
EnvBuildValues == {<<>>, << <<"bd">> >>, << <<"ws", "FlintCore", "build">> >>}
Environs == [engine : EnvEngineValues, source : EnvSourceValues, build : EnvBuildValues]

\* source_hint = env_source or (workspace / "FlintCore")
SourceHint(env) ==
    IF env.source # <<>> THEN env.source[1] ELSE Workspace \o <<"FlintCore">>

\* build_hints: the override when set, then the four conventional directories
BuildHints(env) ==
    (IF env.build # <<>> THEN <<env.build[1]>> ELSE <<>>)
      \o << SourceHint(env) \o <<"build">>,
            SourceHint(env) \o <<"build-ci">>,
            SourceHint(env) \o <<"cmake-build-release">>,
            SourceHint(env) \o <<"build-release">> >>

\* for build_dir in build_hints: both binary names
RECURSIVE BinariesIn(_)
BinariesIn(dirs) ==
    IF dirs = <<>> THEN <<>>
    ELSE << dirs[1] \o <<"FlintCore">>, dirs[1] \o <<"FlintCore.exe">> >>
           \o BinariesIn(Tail(dirs))

Fallback == RepoRoot \o <<"build", "FlintCore">>

\* Mutant: the fallback location is tried first.
Candidates_FallbackFirst(env) ==
    <<Fallback>>
      \o (IF env.engine # <<>> THEN <<env.engine[1]>> ELSE <<>>)
      \o BinariesIn(BuildHints(env))

\* candidates, before deduplication
Candidates(env) ==
    (IF env.engine # <<>> THEN <<env.engine[1]>> ELSE <<>>)
      \o BinariesIn(BuildHints(env))
      \o <<Fallback>>

\* Deduplicate while preserving order.
RECURSIVE Dedupe(_, _)
Dedupe(cands, seen) ==
    IF cands = <<>> THEN <<>>
    ELSE IF cands[1] \in seen THEN Dedupe(Tail(cands), seen)
    ELSE <<cands[1]>> \o Dedupe(Tail(cands), seen \cup {cands[1]})

candidate_engine_paths(env) == Dedupe(Candidates(env), {})

AllPaths == UNION { { Candidates(env)[i] : i \in 1..Len(Candidates(env)) } : env \in Environs }

NotRun == [kind |-> "none", path |-> <<>>]
Found(p) == [kind |-> "path", path |-> p]
EngineNotFoundError == [kind |-> "EngineNotFoundError", path |-> <<>>]

\* cand.is_file() and os.access(cand, os.X_OK): execs are the regular files
\* with execute permission, plains the regular files without it.
Usable(p, execs, plains) == p \in (execs \cup plains) /\ p \in execs

\* discover_engine_binary: the first usable candidate, else EngineNotFoundError
discover_engine_binary(env, execs, plains) ==
    LET cands == candidate_engine_paths(env)
        hits == { i \in 1..Len(cands) : Usable(cands[i], execs, plains) }
    IN IF hits = {} THEN EngineNotFoundError
       ELSE Found(cands[CHOOSE i \in hits : \A j \in hits : i <= j])

DiscoverEngineBinary ==
    /\ discovered = NotRun
    /\ discovered' = discover_engine_binary(environ, exec_files, plain_files)
    /\ UNCHANGED <<environ, exec_files, plain_files, engine_path, harness, outsideDisc>>

\* EngineHarness.__init__: the given path, else the discovered one; it must be
\* a regular executable file.
HarnessInit ==
    /\ harness = NotRun
    /\ LET resolved == IF engine_path # <<>> THEN Found(engine_path[1])
                       ELSE discover_engine_binary(environ, exec_files, plain_files)
       IN harness' = IF resolved.kind = "path" /\ Usable(resolved.path, exec_files, plain_files)
                         THEN resolved
                     ELSE EngineNotFoundError
    /\ UNCHANGED <<environ, exec_files, plain_files, engine_path, discovered, outsideDisc>>

InitDisc ==
    /\ EloIdle
    /\ MatchIdle
    /\ ScriptIdle
    /\ ParseIdle
    /\ CaseIdle
    /\ environ \in Environs
    /\ exec_files \in { S \in SUBSET AllPaths : Cardinality(S) <= MaxExec }
    /\ plain_files \in { S \in SUBSET {Fallback, <<"opt", "engine">>} : S \cap exec_files = {} }
    /\ engine_path \in {<<>>, << <<"opt", "engine">> >>}
    /\ discovered = NotRun
    /\ harness = NotRun

NextDisc == DiscoverEngineBinary \/ HarnessInit

SpecDisc == InitDisc /\ [][NextDisc]_vars


\* ------------------------- logistic_from_elo, elo_from_score, elo_with_confidence
\* Reals are exact rationals [n, d] with d > 0.  An Elo value is given in
\* decades of 400 points, where the power of ten is rational; a logarithm that
\* is not an integer is the open interval between two integers.
MaxDecades == 7
MaxN == 4
ScoreDenominator == 20

Million == 1000000

RECURSIVE Pow10(_)
Pow10(k) == IF k = 0 THEN 1 ELSE 10 * Pow10(k - 1)

RECURSIVE GCD(_, _)
GCD(a, b) == IF b = 0 THEN a ELSE GCD(b, a % b)

Reduce(r) == LET g == GCD(r.n, r.d) IN [n |-> r.n \div g, d |-> r.d \div g]
RMul(a, b) == Reduce([n |-> a.n * b.n, d |-> a.d * b.d])
RInv(a) == [n |-> a.d, d |-> a.n]

\* 1.0 / (1.0 + math.pow(10.0, -elo / 400.0)) for elo = 400 * decades
logistic_from_elo(decades) ==
    LET p == IF decades >= 0 THEN [n |-> 1, d |-> Pow10(decades)]
             ELSE [n |-> Pow10(-decades), d |-> 1]
    IN RInv([n |-> p.d + p.n, d |-> p.d])

\* Mutant: the score is not clamped.
ClampScore_Off(s) == s

\* min(max(score, 1e-6), 1 - 1e-6); the comparisons avoid products that do
\* not fit the machine integers.
ClampScore(s) ==
    IF s.n <= (s.d - 1) \div Million THEN [n |-> 1, d |-> Million]
    ELSE IF s.d - s.n <= (s.d - 1) \div Million THEN [n |-> Million - 1, d |-> Million]
    ELSE s

\* math.log10 of a positive rational: the integer k when r = 10^k, else the
\* open interval (lo, hi) of width one that contains it.
Log10(r) ==
    IF r.n >= r.d
    THEN LET q == r.n \div r.d
             k == CHOOSE i \in 0..8 : Pow10(i) <= q /\ q < Pow10(i + 1)
         IN IF r.n = Pow10(k) * r.d
                THEN [lo |-> k, hi |-> k, exact |-> TRUE]
            ELSE [lo |-> k, hi |-> k + 1, exact |-> FALSE]
    ELSE LET c == (r.d + r.n - 1) \div r.n
             j == CHOOSE i \in 1..9 : Pow10(i) >= c /\ Pow10(i - 1) < c
         IN IF r.d = Pow10(j) * r.n
                THEN [lo |-> -j, hi |-> -j, exact |-> TRUE]
            ELSE [lo |-> -j, hi |-> 1 - j, exact |-> FALSE]

\* elo_from_score: -400 * log10(1 / score - 1) of the clamped score, in Elo.
elo_from_score(score) ==
    LET s == ClampScore(score)
        l == Log10([n |-> s.d - s.n, d |-> s.n])
    IN [lo |-> -400 * l.hi, hi |-> -400 * l.lo, exact |-> l.exact]

ZeroElo == [lo |-> 0, hi |-> 0, exact |-> TRUE]
ZeroMargin == [n |-> 0, d |-> 1]

\* Mutant: the variance grows with the number of games.
SigmaSquared_Times(s, games) ==
    Reduce([n |-> s.n * (s.d - s.n) * games, d |-> s.d * s.d])

\* sigma_p squared: score * (1 - score) / games
SigmaSquared(s, games) ==
    Reduce([n |-> s.n * (s.d - s.n), d |-> s.d * s.d * games])

\* deriv in units of 400 / ln(10): 1 / (score * (1 - score))
Deriv(s) == Reduce([n |-> s.d * s.d, d |-> s.n * (s.d - s.n)])

\* elo_with_confidence: the Elo, and the square of the margin in units of
\* z * 400 / ln(10), a positive number for either value of z.
elo_with_confidence(score, games) ==
    IF games = 0 THEN [elo |-> ZeroElo, margin2 |-> ZeroMargin]
    ELSE LET s == ClampScore(score)
             deriv == Deriv(s)
         IN [elo |-> elo_from_score(s),
             margin2 |-> RMul(RMul(deriv, deriv), SigmaSquared(s, games))]

\* Mutant: the score divides by games_played whatever it is.
score_NoGuard(r) == [n |-> 2 * r.wins_a + r.draws, d |-> 2 * r.games_played]

\* SPRTResult.score: (wins_a + 0.5 * draws) / games_played, 0.5 without games
score(r) ==
    IF r.games_played = 0 THEN [n |-> 1, d |-> 2]
    ELSE [n |-> 2 * r.wins_a + r.draws, d |-> 2 * r.games_played]

\* SPRTResult.elo_and_ci
elo_and_ci(r) == elo_with_confidence(score(r), r.games_played)

NoRoundTrip == [lo |-> 0, hi |-> 0, exact |-> FALSE]

\* elo_from_score(logistic_from_elo(e)) for e = 400 * elo_in
RoundTrip ==
    /\ round_trip = NoRoundTrip
    /\ round_trip' = elo_from_score(logistic_from_elo(elo_in))
    /\ UNCHANGED <<elo_in, score_in, estimates, outsideElo>>

\* elo_with_confidence(score_in, games) for one more number of games
EloWithConfidence ==
    \E games \in (0..MaxN) \ DOMAIN estimates :
        /\ estimates' = [g \in DOMAIN estimates \cup {games} |->
                            IF g = games THEN elo_with_confidence(score_in, games)
                            ELSE estimates[g]]
        /\ UNCHANGED <<elo_in, score_in, round_trip, outsideElo>>

InitElo ==
    /\ MatchIdle
    /\ ScriptIdle
    /\ ParseIdle
    /\ CaseIdle
    /\ DiscIdle
    /\ elo_in \in (-MaxDecades)..MaxDecades
    /\ score_in \in [n : 1..(ScoreDenominator - 1), d : {ScoreDenominator}]
    /\ round_trip = NoRoundTrip
    /\ estimates = <<>>

NextElo == RoundTrip \/ EloWithConfidence

SpecElo == InitElo /\ [][NextElo]_vars

\* ------------------------------------------------- the game loop, long games
\* The for loop of run from the state in which both engines run and are
\* configured, with games long enough to reach every histogram bucket.
LongPly == 100
LongGameCaps == {1, 2}

InitLong ==
    /\ EloIdle
    /\ DiscIdle
    /\ CaseIdle
    /\ ParseIdle
    /\ ScriptIdle
    /\ config \in [games : LongGameCaps,
                   bounds : {[elo0 |-> 0, elo1 |-> 400, alpha |-> 25, beta |-> 25]}]
    /\ openings = <<None>>
    /\ pc = "for"
    /\ proc = [e \in Engines |-> "running"]
    /\ applied = [e \in Engines |-> Options]
    /\ rejected = [e \in Engines |-> {}]
    /\ game_idx = 0
    /\ opening = None
    /\ board = NoBoard
    /\ white_is_a = TRUE
    /\ llr = 0
    /\ wins_a = 0 /\ wins_b = 0 /\ draws = 0
    /\ penta = <<0, 0, 0, 0, 0>>
    /\ verdict = "in_progress"
    /\ result = NoResult
    /\ first = "none"
    /\ last = NoGame
    /\ ask = NoAsk
    /\ horizon = LongPly
    /\ spawns = [e \in Engines |-> 1]

NextLong ==
    \/ ForNext
    \/ ForElse
    \/ GameOver
    \/ PlayMove
    \/ PlayForfeit
    \/ PlayRaises

SpecLong == InitLong /\ [][NextLong]_vars

\* ------------------------------------------------ run with any error rates
\* SPRTBounds takes any alpha and beta: the match with error rates of 25, 50
\* and 75 percent each, between hypotheses 200 Elo either side of zero.
ErrorRates == {25, 50, 75}
WideBounds == [elo0 : {-200}, elo1 : {200}, alpha : ErrorRates, beta : ErrorRates]

InitWide ==
    /\ EloIdle
    /\ DiscIdle
    /\ CaseIdle
    /\ ParseIdle
    /\ ScriptIdle
    /\ config \in [games : 0..MaxGames, bounds : WideBounds]
    /\ openings = <<None>>
    /\ pc = "popen_a"
    /\ proc = [e \in Engines |-> "unspawned"]
    /\ applied = [e \in Engines |-> {}]
    /\ rejected = [e \in Engines |-> {}]
    /\ spawns = [e \in Engines |-> 0]
    /\ game_idx = 0
    /\ opening = None
    /\ board = NoBoard
    /\ white_is_a = TRUE
    /\ llr = 0
    /\ wins_a = 0 /\ wins_b = 0 /\ draws = 0
    /\ penta = <<0, 0, 0, 0, 0>>
    /\ verdict = "in_progress"
    /\ result = NoResult
    /\ first = "none"
    /\ last = NoGame
    /\ ask = NoAsk
    /\ horizon = MaxPly

Next ==
    \/ PopenA
    \/ PopenB
    \/ \E e \in Engines : ConfigureEngine(e)
    \/ \E e \in Engines : ConfigureRaises(e)
    \/ ForNext
    \/ ForElse
    \/ GameOver
    \/ PlayMove
    \/ PlayForfeit
    \/ PlayRaises

Spec == Init /\ [][Next]_vars

\* run is sequential code and every call it makes returns or raises: a step
\* that can be taken is taken.
SpecFair == Init /\ [][Next]_vars /\ WF_vars(Next)

\* run with any error rates.
SpecWide == InitWide /\ [][Next]_vars

TypeOK ==
    /\ pc \in {"popen_a", "popen_b", "configure_a", "configure_b", "for", "play",
               "returned", "raised"}
    /\ proc \in [Engines -> {"unspawned", "running", "dead", "closed"}]
    /\ game_idx \in 0..MaxGames
    /\ wins_a + wins_b + draws <= config.games
    /\ verdict \in {"in_progress", "accept H1", "accept H0", "max games reached"}

\* ================================================================ claims
GamesDone == wins_a + wins_b + draws
Between(l, b) == lower(b) < l /\ l < upper(b)
Accepts == {"accept H1", "accept H0"}

\* C1: after every game the LLR is compared with the bounds.  While run is in
\* its loop the LLR is strictly between the bounds; a return with 'accept H1'
\* has LLR >= upper and one with 'accept H0' has LLR <= lower, the game that
\* crossed is the last game played and every game before it left the LLR
\* between the bounds; and at the top of the loop, with a game left, the next
\* game can start.
C1_StopAtFirstCrossing ==
    /\ (pc \in {"for", "play"} => Between(llr, config.bounds))
    /\ (pc = "returned" /\ llr >= upper(config.bounds) => result.verdict = "accept H1")
    /\ (pc = "returned" /\ llr <= lower(config.bounds) => result.verdict = "accept H0")
    /\ (pc = "returned" /\ result.verdict = "accept H1" => llr >= upper(config.bounds))
    /\ (pc = "returned" /\ result.verdict = "accept H0" => llr <= lower(config.bounds))
    /\ (pc = "returned" /\ result.verdict \in Accepts =>
          /\ last.idx = game_idx
          /\ GamesDone = game_idx + 1
          /\ Between(last.llr0, config.bounds))
    /\ (pc = "for" /\ game_idx < config.games => ENABLED ForNext)

\* C1 witness: a match stopped by the lower bound after three games, none of
\* the earlier games having stopped it.
C1_Witness ==
    /\ pc = "returned"
    /\ result.verdict = "accept H0"
    /\ result.games_played = 3
    /\ last.llr0 < 0

AllWins == wins_a >= 1 /\ wins_b = 0 /\ draws = 0
AllLosses == wins_b >= 1 /\ wins_a = 0 /\ draws = 0

\* C3 as stated: a match in which engine A won every game returns 'accept H1'
\* with the LLR at or above upper, and one in which A lost every game returns
\* 'accept H0' with the LLR at or below lower.
C3_AllWinsAcceptH1 ==
    pc = "returned" =>
        /\ (AllWins => result.verdict = "accept H1" /\ llr >= upper(config.bounds))
        /\ (AllLosses => result.verdict = "accept H0" /\ llr <= lower(config.bounds))

\* C3 amended: with elo0 < elo1, every win of A adds ln(p1/p0) > 0 to the LLR
\* and every loss adds ln((1-p1)/(1-p0)) < 0.  An all-wins match returns
\* 'accept H1' when config.games wins reach upper, and otherwise 'max games
\* reached' with the LLR below upper; an all-losses match returns 'accept H0'
\* when config.games losses reach lower, and otherwise 'max games reached'.
C3_AllWinsAmended ==
    (pc = "returned" /\ config.bounds.elo0 < config.bounds.elo1) =>
        LET b == config.bounds
            w == likelihood_ratio(b, 2)
            l == likelihood_ratio(b, 0)
        IN  /\ (AllWins =>
                  /\ w > 0 /\ llr = wins_a * w
                  /\ IF config.games * w >= upper(b)
                     THEN result.verdict = "accept H1" /\ llr >= upper(b)
                     ELSE result.verdict = "max games reached" /\ llr < upper(b))
            /\ (AllLosses =>
                  /\ l < 0 /\ llr = wins_b * l
                  /\ IF config.games * l <= lower(b)
                     THEN result.verdict = "accept H0" /\ llr <= lower(b)
                     ELSE result.verdict = "max games reached" /\ llr > lower(b))

\* C3 witness: three wins in a row cross the upper bound.
C3_Witness ==
    /\ pc = "returned"
    /\ config.bounds.elo0 < config.bounds.elo1
    /\ AllWins /\ wins_a = 3
    /\ result.verdict = "accept H1"

\* C4: when the engine asked for a move raises an engine error, has terminated
\* or returns no move, the game is over in the same step (run is back at the
\* top of its loop or has returned, and no move was pushed), the mover is the
\* forfeiter, and the score from A's side is 0 when A was the mover and 1 when
\* B was, whichever colour A played.
C4_ForfeitScoring ==
    ask.reply \in Forfeits =>
        /\ pc \in {"for", "returned"}
        /\ last.forfeit = ask.engine
        /\ last.plies = board.plies
        /\ last.score2 = (IF ask.engine = "A" THEN 0 ELSE 2)
        /\ (ask.engine = "A" => wins_b = last.tally0[2] + 1)
        /\ (ask.engine = "B" => wins_a = last.tally0[1] + 1)

\* C4 witness: engine A, playing Black, had terminated when asked for a move.
C4_Witness ==
    /\ ask.reply = "terminated"
    /\ ask.engine = "A"
    /\ ~last.white_is_a
    /\ last.score2 = 0
    /\ last.plies = 1

\* C5: a forfeited game does not abort the match: it is counted in the tallies
\* and in the LLR.  If it left the LLR between the bounds, run is at the top of
\* its loop with the next game index, where the next game can start, or, the cap
\* being exhausted, returns 'max games reached'; otherwise run has returned an
\* accept verdict.
C5_ForfeitContinues ==
    ask.reply \in Forfeits =>
        /\ pc # "raised"
        /\ GamesDone = last.idx + 1
        /\ llr = last.llr0 + likelihood_ratio(config.bounds, last.score2)
        /\ IF Between(llr, config.bounds)
           THEN /\ game_idx = last.idx + 1
                /\ \/ pc = "for" /\ game_idx < config.games /\ ENABLED ForNext
                   \/ pc = "for" /\ game_idx = config.games /\ ENABLED ForElse
                   \/ /\ pc = "returned"
                      /\ game_idx = config.games
                      /\ result.verdict = "max games reached"
           ELSE /\ pc = "returned"
                /\ result.verdict \in Accepts

\* C5 witness: a game is being played after a game that was forfeited.
C5_Witness ==
    /\ pc = "play"
    /\ last.forfeit # "none"
    /\ last.idx + 1 = game_idx
    /\ ask.reply = "move"

ByParity(i) == IF i % 2 = 0 THEN "A" ELSE "B"

\* C6 as stated: in every game with an even index engine A is the first engine
\* asked for a move, and in every game with an odd index engine B is.
C6_FirstAskedByParity ==
    /\ (pc = "play" /\ first # "none" => first = ByParity(game_idx))
    /\ (last.first # "none" => last.first = ByParity(last.idx))

\* C6 amended: colours alternate by game index parity (A plays White in every
\* even game, B in every odd game).  The first engine asked for a move is the
\* one playing the side to move in the opening: the White engine when White is
\* to move, the Black engine when Black is to move; no engine is asked when the
\* opening position is already terminal.
C6_ColoursByParity ==
    /\ (pc = "play" =>
          /\ white_is_a = (game_idx % 2 = 0)
          /\ (first # "none" =>
                first = (IF NewBoard(opening).turn = WHITE
                         THEN ByParity(game_idx) ELSE ByParity(game_idx + 1))))
    /\ (last.idx >= 0 =>
          /\ last.white_is_a = (last.idx % 2 = 0)
          /\ (last.first # "none" =>
                last.first = (IF NewBoard(last.opening).turn = WHITE
                              THEN ByParity(last.idx) ELSE ByParity(last.idx + 1)))
          /\ (last.opening = FenOver => last.first = "none"))

\* C6 witness: game 0 from an opening with Black to move; engine B was asked first.
C6_Witness ==
    /\ last.idx = 0
    /\ last.opening = FenBlack
    /\ last.white_is_a
    /\ last.first = "B"

\* C7: the score of every completed game is 0, 1/2 or 1 from A's side: 1
\* exactly when the side A played won, 0 exactly when the side B played won,
\* 1/2 when there is no winner; and exactly the matching tally went up by one.
C7_ScoreFromA ==
    last.idx >= 0 =>
        LET sideA == IF last.white_is_a THEN WHITE ELSE BLACK
            sideB == IF last.white_is_a THEN BLACK ELSE WHITE
        IN  /\ last.score2 \in {0, 1, 2}
            /\ (last.score2 = 2 <=> last.winner = sideA)
            /\ (last.score2 = 0 <=> last.winner = sideB)
            /\ (last.score2 = 1 <=> last.winner = NoWinner)
            /\ <<wins_a, wins_b, draws>> =
                 (CASE last.score2 = 2 -> <<last.tally0[1] + 1, last.tally0[2], last.tally0[3]>>
                    [] last.score2 = 0 -> <<last.tally0[1], last.tally0[2] + 1, last.tally0[3]>>
                    [] last.score2 = 1 -> <<last.tally0[1], last.tally0[2], last.tally0[3] + 1>>)

\* C7 witness: A played Black in a game played to its end, Black won, and the
\* game counts as a win of A.
C7_Witness ==
    /\ last.idx = 1
    /\ ~last.white_is_a
    /\ last.forfeit = "none"
    /\ last.winner = BLACK
    /\ last.score2 = 2
    /\ wins_a = last.tally0[1] + 1

\* C8: when run has exited, by a return or by an exception, no engine process
\* it spawned is still there; after a return both engines were spawned and
\* both are closed.
C8_EnginesTerminated ==
    /\ (pc \in {"returned", "raised"} => \A e \in Engines : proc[e] \in {"unspawned", "closed"})
    /\ (pc = "returned" => \A e \in Engines : proc[e] = "closed")
    /\ (pc = "raised" /\ ask.reply = "raise" => \A e \in Engines : proc[e] = "closed")

\* C8 witness: the second engine could not be spawned; the first one is closed.
C8_Witness ==
    /\ pc = "raised"
    /\ proc["A"] = "closed"
    /\ proc["B"] = "unspawned"

\* C9: at most config.games games are played, game i is the (i+1)-th game
\* played, and it starts from openings[i mod len(openings)]; None and
\* 'startpos' give the standard position (White to move, not terminal).
C9_GamesAndOpenings ==
    /\ GamesDone <= config.games
    /\ (pc = "play" =>
          /\ game_idx < config.games
          /\ GamesDone = game_idx
          /\ opening = openings[(game_idx % Len(openings)) + 1]
          /\ (opening \in {None, "startpos"} /\ board.plies = 0 =>
                board.turn = WHITE /\ ~board.over))
    /\ (last.idx >= 0 =>
          /\ last.idx = GamesDone - 1
          /\ last.opening = openings[(last.idx % Len(openings)) + 1])

\* C9 witness: the third game of a match over a list of two openings starts
\* from the first opening again.
C9_Witness ==
    /\ pc = "play"
    /\ game_idx = 2
    /\ Len(openings) = 2
    /\ opening = openings[1]
    /\ last.opening = openings[2]

\* A line an engine reads as the terminating command: the word quit in any
\* letter case, with nothing but blanks before and after it.
IsTerminating(c) ==
    \E i \in 1..Len(c) :
        /\ i + 3 <= Len(c)
        /\ c[i] \in {"q", "Q"} /\ c[i + 1] \in {"u", "U"}
        /\ c[i + 2] \in {"i", "I"} /\ c[i + 3] \in {"t", "T"}
        /\ \A k \in 1..Len(c) : (k < i \/ k > i + 3) => c[k] \in Whitespace

\* C10: the script lines of run_uci_script are the given commands, unchanged
\* and in order, followed by "quit" exactly when the sequence is empty or its
\* last command is not the terminating command; the last script line is the
\* terminating command; _ensure_quit leaves the script lines as they are when
\* applied again; and the text written is those lines, each ended by a newline.
C10_ScriptEndsWithQuit ==
    sresult # "idle" =>
        LET n == Len(commands)
            appended == (n = 0) \/ ~IsTerminating(commands[n])
        IN  /\ SubSeq(script_lines, 1, n) = commands
            /\ Len(script_lines) = n + (IF appended THEN 1 ELSE 0)
            /\ (appended => script_lines[n + 1] = Quit)
            /\ IsTerminating(script_lines[Len(script_lines)])
            /\ ensure_quit(script_lines) = script_lines
            /\ script = JoinLines(commands) \o (IF n = 0 THEN <<>> ELSE <<NL>>)
                          \o (IF appended THEN Quit \o <<NL>> ELSE <<>>)

\* C10 witness: the last of two commands is " quit<TAB>": nothing is appended.
C10_Witness ==
    /\ sresult = "CommandResult"
    /\ Len(commands) = 2
    /\ commands[2] = <<" ", "q", "u", "i", "t", "\t">>
    /\ script_lines = commands

\* The deadline as the claim has it: the timeout argument when one is given,
\* else the timeout of the harness.
StatedDeadline == IF timeout_arg = <<>> THEN harness_timeout ELSE timeout_arg[1]

\* C11: one call of run_uci_script spawns exactly one process; it returns a
\* CommandResult exactly when the process exited with status zero before the
\* deadline (the timeout argument when given, else the harness timeout), and
\* otherwise fails with TimeoutExpired or CalledProcessError, with no retry.
C11_OneSpawnNoRetry ==
    sresult # "idle" =>
        /\ spawned = 1
        /\ sresult \in {"CommandResult", "CalledProcessError", "TimeoutExpired"}
        /\ (sresult = "CommandResult") <=>
              (child.exits /\ child.code = 0 /\ child.at < StatedDeadline)

\* The number of a line that has one of the two forms, after stripping and
\* lower-casing: 'total nodes: N', or 'nodes N' with anything after N.
LineNumber(line) ==
    LET stripped == str_strip(line)
        lowered == str_lower(stripped)
        rest == str_strip(SubSeq(stripped, Len(TotalNodesPrefix) + 1, Len(stripped)))
        toks == split(stripped)
    IN IF startswith(lowered, TotalNodesPrefix) /\ IsDecimal(rest)
           THEN <<DecimalValue(rest)>>
       ELSE IF startswith(lowered, NodesPrefix) /\ IsDecimal(toks[2])
           THEN <<DecimalValue(toks[2])>>
       ELSE <<>>

MatchingLines(lines) == { i \in 1..Len(lines) : LineNumber(lines[i]) # <<>> }

Max(S) == CHOOSE x \in S : \A y \in S : y <= x

\* C12: _parse_perft_nodes returns the number of the last output line of the
\* form 'total nodes: N' or 'nodes N' (case-insensitive), whatever lines
\* precede or follow it, and fails with a parse error when no line has either
\* form.
C12_LastMatchingLine ==
    parsed # NotParsed =>
        LET lines == splitlines(output)
            hits == MatchingLines(lines)
        IN IF hits = {} THEN parsed = ParseError
           ELSE parsed = Parsed(LineNumber(lines[Max(hits)])[1])

\* The position part of the command: the standard position, or the keyword
\* fen and the description.
PositionPart(c) ==
    IF c.startpos THEN <<"p","o","s","i","t","i","o","n"," ","s","t","a","r","t","p","o","s">>
    ELSE <<"p","o","s","i","t","i","o","n"," ","f","e","n"," ">> \o c.fen[1]

Range(f) == { f[i] : i \in DOMAIN f }

RECURSIVE TotalLen(_)
TotalLen(tokens) ==
    IF tokens = <<>> THEN 0 ELSE Len(tokens[1]) + TotalLen(Tail(tokens))

\* C13: _position_command renders a standard-position case as
\* 'position startpos' and a position-description case as
\* 'position fen <description>', followed by ' moves ' and the moves in their
\* given order exactly when the move list is non-empty; with an empty move
\* list the command has no 'moves' keyword.
C13_PositionCommand ==
    position # NoCommand =>
        /\ position.kind = "str"
        /\ startswith(position.text, PositionPart(case))
        /\ case.moves = <<>> =>
              /\ position.text = PositionPart(case)
              /\ <<"m","o","v","e","s">> \notin Range(split(position.text))
        /\ case.moves # <<>> =>
              /\ split(position.text) =
                    split(PositionPart(case)) \o << <<"m","o","v","e","s">> >> \o case.moves
              /\ Len(position.text) =
                    Len(PositionPart(case)) + 6 + TotalLen(case.moves) + Len(case.moves)

\* A command with two moves has been rendered for a position description.
C13_Witness ==
    /\ position.kind = "str"
    /\ ~case.startpos
    /\ Len(case.moves) = 2
    /\ case.moves[1] # case.moves[2]

\* The position specifiers a case has: the standard position, a non-empty
\* description.
Specifiers(c) ==
    (IF c.startpos THEN {"startpos"} ELSE {}) \cup
    (IF c.fen # <<>> /\ c.fen[1] # <<>> THEN {"fen"} ELSE {})

ShortMoves(c) == { i \in 1..Len(c.moves) : Len(c.moves[i]) < 4 }

\* C14: constructing a PerftExpectation fails at once when both the standard
\* position and a position description are given, when neither is given, or
\* when a move token is shorter than 4 characters; every PerftExpectation
\* that exists has exactly one position specifier and only move tokens of
\* length >= 4.
C14_ConstructionChecks ==
    /\ built = "ValueError" <=>
          (built # "no" /\ (Cardinality(Specifiers(case)) # 1 \/ ShortMoves(case) # {}))
    /\ built = "constructed" =>
          Cardinality(Specifiers(case)) = 1 /\ ShortMoves(case) = {}
    /\ built # "constructed" => position = NoCommand

\* A construction has failed for a case that gives both specifiers and only
\* well-formed moves.
C14_Witness ==
    /\ built = "ValueError"
    /\ Cardinality(Specifiers(case)) = 2
    /\ ShortMoves(case) = {}
    /\ case.moves # <<>>

\* The places searched, in the stated order: the explicit override, the
\* build-directory override, the conventional build subdirectories of the
\* source-tree hint, the fallback location.
BinaryNames == {"FlintCore", "FlintCore.exe"}
SearchTier(env, k) ==
    CASE k = 1 -> { env.engine[i] : i \in DOMAIN env.engine }
      [] k = 2 -> { env.build[i] \o <<n>> : i \in DOMAIN env.build, n \in BinaryNames }
      [] k = 3 -> { SourceHint(env) \o <<d, n>> :
                      d \in {"build", "build-ci", "cmake-build-release", "build-release"},
                      n \in BinaryNames }
      [] k = 4 -> { <<"ws", "repo", "build", "FlintCore">> }

FirstTier(env, p) == CHOOSE k \in 1..4 : p \in SearchTier(env, k) /\ \A j \in 1..(k - 1) : p \notin SearchTier(env, j)

\* C15: discovery tries the candidates in a fixed order (explicit override,
\* build-directory override, conventional build subdirectories of the source
\* hint, fallback) and returns the first that is a regular executable file;
\* when none qualifies it fails with EngineNotFoundError, and no process has
\* been spawned.
C15_FirstExecutableCandidate ==
    LET places == UNION { SearchTier(environ, k) : k \in 1..4 }
    IN /\ spawned = 0
       /\ discovered.kind = "EngineNotFoundError" => places \cap exec_files = {}
       /\ discovered.kind = "path" =>
             /\ discovered.path \in places \cap exec_files
             /\ \A q \in places \cap exec_files :
                    FirstTier(environ, discovered.path) <= FirstTier(environ, q)
       /\ discovered # NotRun /\ places \cap exec_files = {} =>
             discovered.kind = "EngineNotFoundError"
       /\ harness.kind = "path" => harness.path \in exec_files
       /\ harness.kind = "path" /\ engine_path = <<>> =>
             \A q \in places \cap exec_files :
                 FirstTier(environ, harness.path) <= FirstTier(environ, q)

\* Discovery has returned a conventional build binary although the fallback
\* location holds an executable too.
C15_Witness ==
    /\ discovered.kind = "path"
    /\ FirstTier(environ, discovered.path) = 3
    /\ <<"ws", "repo", "build", "FlintCore">> \in exec_files

\* C16: each option (Threads, Hash) is applied to each engine independently
\* and best-effort: the step in which an engine rejects options does not abort
\* the match, applies to that engine every option it did not reject, and
\* leaves the options applied to the other engine as they are.
C16_OptionsBestEffort ==
    [][ \A e \in Engines :
          rejected'[e] # rejected[e] =>
              /\ pc' \in {"configure_b", "for"}
              /\ applied'[e] = {"Threads", "Hash"} \ rejected'[e]
              /\ \A o \in Engines \ {e} : applied'[o] = applied[o]
              /\ proc' = proc ]_vars

\* The match has reached its first game although engine A rejected Threads
\* and engine B rejected Hash.
C16_Witness ==
    /\ pc = "play"
    /\ rejected = [e \in Engines |-> IF e = "A" THEN {"Threads"} ELSE {"Hash"}]
    /\ applied = [e \in Engines |-> IF e = "A" THEN {"Hash"} ELSE {"Threads"}]

\* Whether an Elo result can lie within 1e-6 of the whole number e: an exact
\* result must be e, an open interval between whole numbers must contain e or
\* end at it.
CanBeWithinTolerance(r, e) ==
    IF r.exact THEN r.lo = e ELSE r.lo <= e /\ e <= r.hi

\* C17 as stated: for an Elo value e, elo_from_score(logistic_from_elo(e))
\* reproduces e within 1e-6, and score 0.5 maps to Elo 0.
C17_RoundTripEverywhere ==
    round_trip # NoRoundTrip => CanBeWithinTolerance(round_trip, 400 * elo_in)

\* C17, amended: for an Elo value e whose score lies inside the clamp range
\* [1e-6, 1 - 1e-6] (here |e| <= 2000), elo_from_score(logistic_from_elo(e))
\* reproduces e, and score 0.5 maps to Elo 0; for |e| >= 2400 the score is
\* clamped and the result lies strictly between 2000 and 2400 in magnitude.
C17_RoundTripInsideClamp ==
    /\ round_trip # NoRoundTrip =>
          LET e == 400 * elo_in IN
          /\ (-2000 <= e /\ e <= 2000) =>
                round_trip = [lo |-> e, hi |-> e, exact |-> TRUE]
          /\ e >= 2400 => round_trip = [lo |-> 2000, hi |-> 2400, exact |-> FALSE]
          /\ e <= -2400 => round_trip = [lo |-> -2400, hi |-> -2000, exact |-> FALSE]
    /\ \A g \in DOMAIN estimates :
          (g >= 1 /\ 2 * score_in.n = score_in.d) => estimates[g].elo = ZeroElo

\* A round trip from 1200 Elo has been made.
C17_Witness ==
    /\ elo_in = 3
    /\ round_trip.exact
    /\ round_trip.lo = 1200

EloPositive(r) == IF r.exact THEN r.lo > 0 ELSE r.lo >= 0

\* C18: for a fixed score the margin of elo_with_confidence is positive and
\* strictly decreases as the number of games grows (n1 < n2 implies
\* margin(n2) < margin(n1), for n1 >= 1), and the estimated Elo is positive
\* whenever the score is greater than 0.5.
C18_MarginShrinks ==
    \A g1 \in DOMAIN estimates \ {0} :
        /\ estimates[g1].margin2.n > 0 /\ estimates[g1].margin2.d > 0
        /\ \A g2 \in DOMAIN estimates :
              g1 < g2 =>
                  estimates[g2].margin2.n * estimates[g1].margin2.d
                      < estimates[g1].margin2.n * estimates[g2].margin2.d
        /\ 2 * score_in.n > score_in.d => EloPositive(estimates[g1].elo)

\* Estimates for 1 game and for the largest number of games exist for a
\* score above 0.5.
C18_Witness ==
    /\ {1, MaxN} \subseteq DOMAIN estimates
    /\ 2 * score_in.n > score_in.d

\* C19: when no game was played (game cap 0), run returns tallies all zero
\* with LLR 0, and the result reports score 0.5, Elo 0 and margin 0 without
\* dividing by zero.
C19_NoGamesResult ==
    (pc = "returned" /\ config.games = 0) =>
        /\ result.wins_a = 0 /\ result.wins_b = 0 /\ result.draws = 0
        /\ result.games_played = 0
        /\ result.penta = <<0, 0, 0, 0, 0>>
        /\ result.llr = 0
        /\ score(result) = [n |-> 1, d |-> 2]
        /\ elo_and_ci(result).elo = [lo |-> 0, hi |-> 0, exact |-> TRUE]
        /\ elo_and_ci(result).margin2.n = 0

\* A match with game cap 0 has returned.
C19_Witness ==
    /\ pc = "returned"
    /\ config.games = 0
    /\ result.verdict = "max games reached"

RECURSIVE SumSeq(_)
SumSeq(q) == IF q = <<>> THEN 0 ELSE Head(q) + SumSeq(Tail(q))

\* The bucket of a game of the given length: its number of plies divided by
\* 20 and rounded down, and 4 from 80 plies on.
Bucket(plies) == IF plies >= 80 THEN 4 ELSE plies \div 20

\* C20: after any number of games wins_a + wins_b + draws equals the number
\* of games completed, equals the sum of the five histogram buckets, and is at
\* most config.games; each completed game adds one to exactly one of the three
\* tallies and to exactly one bucket, the one of index min(ply_count // 20, 4);
\* games_played in the result is that count.
C20_TalliesCountGames ==
    /\ [](/\ wins_a + wins_b + draws = last.idx + 1
          /\ wins_a + wins_b + draws = SumSeq(penta)
          /\ wins_a + wins_b + draws <= config.games
          /\ pc = "returned" => result.games_played = last.idx + 1)
    /\ [][ last' # last =>
             /\ last'.idx = last.idx + 1
             /\ <<wins_a' - wins_a, wins_b' - wins_b, draws' - draws>>
                    \in {<<1, 0, 0>>, <<0, 1, 0>>, <<0, 0, 1>>}
             /\ \A i \in 1..5 :
                    penta'[i] = penta[i] + (IF i = Bucket(last'.plies) + 1 THEN 1 ELSE 0) ]_vars

\* Two games are completed, one of 100 plies and one of fewer than 20.
C20_Witness ==
    /\ pc = "returned"
    /\ result.games_played = 2
    /\ result.penta = <<1, 0, 0, 0, 1>>
    /\ last.plies = 100

\* C21: run spawns exactly two engine processes, both before the first game,
\* and none afterwards: the same two processes serve every game of the match,
\* also after a game in which one of them forfeited.
C21_TwoProcessesForTheMatch ==
    /\ [](/\ \A e \in Engines : spawns[e] <= 1
          /\ pc \in {"configure_a", "configure_b", "for", "play", "returned"} =>
                \A e \in Engines : spawns[e] = 1
          /\ \A e \in Engines : proc[e] # "unspawned" => spawns[e] = 1)
    /\ [][ /\ spawns' # spawns =>
                /\ pc \in {"popen_a", "popen_b"}
                /\ game_idx = 0 /\ last.idx = -1 /\ board = NoBoard
           /\ \A e \in Engines :
                proc'[e] = "running" => proc[e] \in {"running", "unspawned"} ]_vars

\* A game is being played after a game that engine A forfeited by terminating.
C21_Witness ==
    /\ pc = "play"
    /\ game_idx >= 1
    /\ last.forfeit = "A"
    /\ proc["A"] = "dead"
    /\ spawns = [e \in Engines |-> 1]

Dead(e) == proc[e] = "dead"

\* The engine to move in a game in progress has terminated.
DeadEngineAsked ==
    /\ pc = "play"
    /\ ~board.over
    /\ Dead(EngineToMove(board, white_is_a))

\* C22: once an engine process has terminated, every later game in which that
\* engine is asked for a move is scored as a forfeit loss for it; the dead
\* engine never blocks run and never makes it raise, so the match ends, with
\* one of the three verdicts after at most config.games games unless run is
\* left by an exception that has another cause.
C22_DeadEngineForfeits ==
    /\ [](DeadEngineAsked => ENABLED PlayForfeit /\ ~ENABLED PlayMove /\ ~ENABLED PlayRaises)
    /\ [][ DeadEngineAsked =>
             LET e == EngineToMove(board, white_is_a) IN
             /\ last'.idx = game_idx
             /\ last'.forfeit = e
             /\ last'.score2 = (IF e = "A" THEN 0 ELSE 2)
             /\ ask' = [engine |-> e, reply |-> "terminated"]
             /\ pc' \in {"for", "returned"} ]_vars
    /\ [][ ((\E e \in Engines : Dead(e)) /\ pc' = "raised") =>
             \/ opening' = FenBad /\ pc = "for"
             \/ ask'.reply = "raise" /\ proc[ask'.engine] = "running" ]_vars
    /\ [](pc = "returned" =>
             /\ result.verdict \in {"accept H1", "accept H0", "max games reached"}
             /\ result.games_played <= config.games)
    /\ ((\E e \in Engines : Dead(e)) ~> pc \in {"returned", "raised"})

\* A match has returned a verdict after engine B, dead since an earlier game,
\* forfeited the last game when it was asked after a move of engine A.
C22_Witness ==
    /\ pc = "returned"
    /\ last.idx >= 1
    /\ "B" \in last.dead0
    /\ last.forfeit = "B"
    /\ last.score2 = 2
    /\ last.plies >= 1
    /\ ask = [engine |-> "B", reply |-> "terminated"]

\* C23: every SPRTResult returned by run has a verdict in {'accept H1',
\* 'accept H0', 'max games reached'}: the initial verdict 'in_progress' is
\* never returned, for every game cap including 0.
C23_VerdictIsFinal ==
    /\ pc = "returned" =>
          /\ result.verdict \in {"accept H1", "accept H0", "max games reached"}
          /\ result.verdict = verdict
    /\ pc # "returned" => result = NoResult /\ verdict = "in_progress"

\* A match with game cap 0 has returned, both engines closed.
C23_Witness ==
    /\ pc = "returned"
    /\ config.games = 0
    /\ result.verdict # "in_progress"
    /\ \A e \in Engines : proc[e] = "closed"

\* The two stopping tests in the other order.
StopVerdictLowerFirst(l, b) ==
    IF l <= lower(b) THEN "accept H0"
    ELSE IF l >= upper(b) THEN "accept H1"
    ELSE "in_progress"

BothTestsHold(l, b) == l >= upper(b) /\ l <= lower(b)

\* C24 as stated: for every SPRTBounds with alpha and beta in (0,1),
\* lower < 0 < upper, the two stopping conditions never hold at the same time,
\* the verdict does not depend on the order of the two tests, and the initial
\* LLR 0 is strictly between the bounds.
C24_BoundsStraddleZero ==
    /\ lower(config.bounds) < 0 /\ 0 < upper(config.bounds)
    /\ ~BothTestsHold(llr, config.bounds)
    /\ StopVerdict(llr, config.bounds) = StopVerdictLowerFirst(llr, config.bounds)

\* C24, amended: for alpha and beta in (0,1) with alpha + beta < 1,
\* lower < 0 < upper, the two stopping conditions never hold together and the
\* verdict does not depend on the order of the tests; with alpha + beta >= 1,
\* upper <= 0 <= lower, the LLR 0 meets both conditions, and a match that has
\* completed a game has returned 'accept H1' whenever both conditions held.
C24_BoundsStraddleZeroBelowOne ==
    LET b == config.bounds IN
    /\ b.alpha + b.beta < 100 =>
          /\ lower(b) < 0 /\ 0 < upper(b)
          /\ ~BothTestsHold(llr, b)
          /\ StopVerdict(llr, b) = StopVerdictLowerFirst(llr, b)
    /\ b.alpha + b.beta >= 100 =>
          /\ upper(b) <= 0 /\ 0 <= lower(b)
          /\ BothTestsHold(0, b)
          /\ (last.idx >= 0 /\ BothTestsHold(llr, b)) =>
                pc = "returned" /\ result.verdict = "accept H1"

\* With alpha = 0.25 and beta = 0.5 a first game won by A has ended the match
\* with 'accept H1', the LLR above upper and above lower.
C24_Witness ==
    /\ config.bounds.alpha = 25 /\ config.bounds.beta = 50
    /\ pc = "returned"
    /\ last.idx = 0
    /\ result.verdict = "accept H1"
    /\ llr >= upper(config.bounds) /\ llr > lower(config.bounds)

====
